---- MODULE Spec2Model ----
(***************************************************************************)
(* A model of typst-languagetool: the syntax-tree walker and its           *)
(* annotation emitter with chunking (src/src/convert.rs), the remote        *)
(* backend's offset mappers (src/src/backends/remote.rs and                  *)
(* src/src/remote/mod.rs), the paragraph cache with the check pass that    *)
(* uses it (src/lsp/src/main.rs, src/cli/src/main.rs), the language       *)
(* server's loop with its pending check, its shadow files and its          *)
(* configuration changes (src/lsp/src/main.rs, src/lt-world/src/lib.rs),   *)
(* and the positions of the two command-line outputs (src/src/output.rs,   *)
(* src/cli/src/output.rs).                                                 *)
(*                                                                         *)
(* Strings are sequences of characters; a character is a one-character     *)
(* TLA+ string, except "LS", which stands for U+2028 LINE SEPARATOR, a      *)
(* line break of three UTF-8 bytes, and "BQ", the backquote.  An Option is a sequence of length 0    *)
(* (None) or 1 (Some).                                                     *)
(***************************************************************************)
EXTENDS Naturals, Sequences, FiniteSets, TLC

VARIABLES
    \* ---- convert (src/src/convert.rs) ----
    doc,          \* the children of the root node handed to convert
    max_length,   \* convert's max_length argument
    child_idx,    \* position of convert's loop over the root's children
    output,       \* the Output under construction
    chunks,       \* the value convert returned (empty until it returns)
    pc,           \* "walk" | "done" | "panicked" | "idle"
    \* ---- TextBuilderRemote / Mapper ----
    calls,        \* the builder calls made so far, in order
    mapper,       \* backends/remote.rs Mapper
    tb,           \* remote/mod.rs TextBuilderRemote (map, position)
    query,        \* the last Mapper.source / map[] lookup and its results
    mpc,          \* "build" | "query" | "mapped" | "panicked" | "idle"
    \* ---- Cache and the check pass ----
    cache,        \* the session's Cache (State.cache / handle_file's cache)
    next_cache,   \* the pass's next_cache
    paragraphs,   \* the chunks of the running pass, as (text, lang)
    para_idx,     \* number of chunks of the running pass already handled
    collected,    \* what the pass handed to collector.add, per chunk
    called,       \* per handled chunk, whether the backend was called
    last,         \* Option: the pass that built the cache, when it completed
                  \* and nothing but the running pass touched the cache since
    requests,     \* the chunks the running pass sent to the backend, in order
    returned,     \* Option: the Result the last check returned to its caller
    cpc,          \* "ready" | "pass" | "stopped" | "idle"
    lt,           \* State.lt: the backend as it is configured
    \* ---- the language server's loop (lsp/src/main.rs) ----
    clock,        \* std::time::Instant::now()
    receiver,     \* connection.receiver: the messages not yet taken
    on_change,    \* State.options.on_change
    check,        \* State.check: Option<CheckData>
    shadow,       \* the files of world.shadow_files
    shadow_text,  \* per file, the text of its shadow Source: the number of
                  \* edits applied to the text it was opened with
    editor,       \* per file, Option: the text the editor holds while the
                  \* file is open, as the number of edits made since
    text_version, \* the number of edits applied to the shadow files so far
    running,      \* Option: the CheckData check_change is working on, with
                  \* the time it started and the text version it reads
    published,    \* the PublishDiagnostics notifications sent so far
    handled,      \* Option: the message the last turn of the loop handled,
                  \* when it was handled, and State.check before it
    last_edit,    \* Option: when the last DidChangeTextDocument was handled
    trigger_since,\* a save or open has been handled since that edit
    sent,         \* the number of messages the client has sent
    lpc,          \* "wait" | "checking" | "panicked" | "stopped" | "idle"
    \* ---- an Output driven call by call (convert.rs) ----
    ops,          \* the number of calls made on the Output so far
    \* ---- check_source's loop over the matches ----
    suggestion,   \* Option: the last match and the Suggestion made of it
    \* ---- handle_file's output loop (src/src/main.rs, output.rs) ----
    position,     \* Option: the Position the output functions advance
    out_idx,      \* the number of chunks whose response has been output
    \* ---- Position and StringCursor (cli/src/output.rs) ----
    cli_position, \* Option: the Position that seek moves
    sought,       \* Option: the last seek: its arguments, the cursor before
                  \* it, what utf_8_offset returned and what seek returned
    seeks         \* the number of seeks made so far

vars == << doc, max_length, child_idx, output, chunks, pc,
           calls, mapper, tb, query, mpc,
           cache, next_cache, paragraphs, para_idx, collected, called,
           last, requests, returned, cpc, lt,
           clock, receiver, on_change, check, shadow, shadow_text, editor,
           text_version, running,
           published, handled, last_edit, trigger_since, sent, lpc,
           ops, suggestion, position, out_idx, cli_position, sought, seeks >>

convertVars == << doc, max_length, child_idx, output, chunks, pc >>
mapperVars == << calls, mapper, tb, query, mpc >>
cacheVars == << cache, next_cache, paragraphs, para_idx, collected, called,
                last, requests, returned, cpc, lt >>
lspVars == << clock, receiver, on_change, check, shadow, shadow_text, editor,
              text_version, running,
              published, handled, last_edit, trigger_since, sent, lpc >>
\* the variables that only the further specifications below use
seekVars == << cli_position, sought, seeks >>
otherVars == << ops, suggestion, position, out_idx, seekVars >>

\* ------------------------------------------------------------------------
\* Bounds of the model
\* ------------------------------------------------------------------------
MaxTop == 3
MaxThreshold == 4
MaxCalls == 3
MaxSeg == 1
MaxChunks == 3
MaxTime == 3
MaxDelay == 2
MaxMessages == 3
MaxOps == 5
MaxText == 2
MaxSeeks == 3

\* ------------------------------------------------------------------------
\* Strings
\* ------------------------------------------------------------------------
None == << >>
Some(x) == << x >>

\* typst_syntax::is_newline, on the characters of the model
is_newline(c) == c \in {"\n", "\r", "LS"}

\* char::len_utf8
len_utf8(c) == IF c = "LS" THEN 3 ELSE 1

RECURSIVE ByteLen(_)
\* str::len: the length in bytes
ByteLen(s) == IF s = << >> THEN 0 ELSE len_utf8(Head(s)) + ByteLen(Tail(s))

\* str::chars().count()
CharCount(s) == Len(s)

Prefix(s, n) == SubSeq(s, 1, n)

\* the index (1-based, in characters) of the last line break of s, 0 if none
LastNewline(s) ==
    IF \E k \in 1..Len(s) : is_newline(s[k])
    THEN CHOOSE k \in 1..Len(s) :
            is_newline(s[k]) /\ \A j \in (k+1)..Len(s) : ~is_newline(s[j])
    ELSE 0

\* ------------------------------------------------------------------------
\* DataAnnotation (languagetool_rust), as convert.rs builds it
\* ------------------------------------------------------------------------
new_text(t) == [text |-> Some(t), markup |-> None, interpret_as |-> None]
new_markup(m) == [text |-> None, markup |-> Some(m), interpret_as |-> None]
new_interpreted_markup(m, a) ==
    [text |-> None, markup |-> Some(m), interpret_as |-> Some(a)]

\* ------------------------------------------------------------------------
\* Output (convert.rs)
\* ------------------------------------------------------------------------
StText(t) == [kind |-> "Text", t |-> t, a |-> << >>]
StMarkup(t) == [kind |-> "Markup", t |-> t, a |-> << >>]
StEncoded(t, a) == [kind |-> "Encoded", t |-> t, a |-> a]

EmptyItem == [annotations |-> << >>, total |-> 0]

Output_new ==
    [items |-> << EmptyItem >>, state |-> StText(<< >>),
     converted_text |-> << >>, panicked |-> FALSE]

add_item(out, item) ==
    LET n == Len(out.items)
        cur == out.items[n]
        t1 == IF item.text # None THEN CharCount(item.text[1]) ELSE 0
        t2 == IF item.markup # None THEN CharCount(item.markup[1]) ELSE 0
    IN [out EXCEPT !.items[n] =
            [annotations |-> Append(cur.annotations, item),
             total |-> cur.total + t1 + t2]]

\* the annotation that out.state stands for
StateItem(st) ==
    CASE st.kind = "Text" -> new_text(st.t)
      [] st.kind = "Markup" -> new_markup(st.t)
      [] st.kind = "Encoded" -> new_interpreted_markup(st.t, st.a)

add_text(out, text) ==
    LET o == [out EXCEPT !.converted_text = out.converted_text \o text]
    IN IF o.state.kind = "Text"
       THEN [o EXCEPT !.state = StText(o.state.t \o text)]
       ELSE [add_item(o, StateItem(o.state)) EXCEPT !.state = StText(text)]

\* mutant of add_markup: the markup is emitted as checker-visible text
add_markup_as_text(out, text) ==
    add_text(out, text)

add_markup(out, text) ==
    IF out.state.kind = "Markup"
    THEN [out EXCEPT !.state = StMarkup(out.state.t \o text)]
    ELSE [add_item(out, StateItem(out.state)) EXCEPT !.state = StMarkup(text)]

\* mutant of add_encoded: the pending segment is pushed whatever its kind
add_encoded_always_push(out, text, res) ==
    LET o == [out EXCEPT !.converted_text = out.converted_text \o res]
    IN [add_item(o, StateItem(o.state)) EXCEPT !.state = StEncoded(text, res)]

add_encoded(out, text, res) ==
    LET o == [out EXCEPT !.converted_text = out.converted_text \o res]
    IN IF o.state.kind = "Encoded"
       THEN [o EXCEPT !.state = StEncoded(o.state.t \o text, o.state.a \o res)]
       ELSE [add_item(o, StateItem(o.state)) EXCEPT !.state = StEncoded(text, res)]

flush(out) == add_item(out, StateItem(out.state))

\* mutant of maybe_seperate: the threshold itself already separates
maybe_seperate_at_max(out, max) ==
    IF out.items[Len(out.items)].total >= max
    THEN [flush(out) EXCEPT !.state = StText(<< >>),
                            !.items = Append(flush(out).items, EmptyItem)]
    ELSE out

maybe_seperate(out, max) ==
    IF out.items[Len(out.items)].total > max
    THEN [flush(out) EXCEPT !.state = StText(<< >>),
                            !.items = Append(flush(out).items, EmptyItem)]
    ELSE out

result(out) == flush(out).items

\* ------------------------------------------------------------------------
\* Rules (rules.rs): the table Rules::new builds
\* ------------------------------------------------------------------------
NL == << "\n" >>
NLNL == << "\n", "\n" >>

Rules_functions(name) ==
    CASE name \in { <<"g","r","i","d">>, <<"t","a","b","l","e">>,
                    <<"h","e","a","d","e","r">> } ->
            Some([before |-> << >>, after |-> << >>, after_argument |-> NL])
      [] name = <<"c","e","l","l">> ->
            Some([before |-> NL, after |-> NL, after_argument |-> << >>])
      [] OTHER -> None

Rules_arguments(name) ==
    IF name = <<"c","a","p","t","i","o","n">>
    THEN Some([before |-> NLNL, after |-> NLNL])
    ELSE None

\* ------------------------------------------------------------------------
\* Syntax nodes (typst_syntax::SyntaxNode): a leaf carries text and no
\* children, an inner node carries children and its text() is empty
\* ------------------------------------------------------------------------
Leaf(kind, text) == [kind |-> kind, text |-> text, children |-> << >>]
Inner(kind, children) == [kind |-> kind, text |-> << >>, children |-> children]

RECURSIVE get_function_name(_)
get_function_name(node) ==
    CASE node.kind = "FuncCall" ->
            IF node.children = << >> THEN None
            ELSE get_function_name(node.children[1])
      [] node.kind = "Ident" -> Some(node.text)
      [] node.kind = "FieldAccess" ->
            IF node.children = << >> THEN None
            ELSE get_function_name(node.children[Len(node.children)])
      [] OTHER -> None

\* ------------------------------------------------------------------------
\* State::convert and State::skip (convert.rs)
\* ------------------------------------------------------------------------
State_new == [mode |-> "Text", after_argument |-> << >>]

Panic(out) == [out EXCEPT !.panicked = TRUE]

RECURSIVE State_convert(_, _, _), convert_children(_, _, _, _),
          skip(_, _), skip_children(_, _, _)

\* for child in node.children() { self.convert(child, output, rules) }
convert_children(self, children, k, out) ==
    IF k > Len(children) \/ out.panicked THEN out
    ELSE convert_children(self, children, k + 1,
                          State_convert(self, children[k], out))

skip_children(children, k, out) ==
    IF k > Len(children) THEN out
    ELSE skip_children(children, k + 1, skip(children[k], out))

skip(node, out) == skip_children(node.children, 1, add_markup(out, node.text))

\* SyntaxKind::Equation
equation_arm(node, out) == skip(node, add_encoded(out, node.text, << "0" >>))

\* SyntaxKind::Ref
ref_arm(node, out) == skip(node, add_encoded(out, << >>, << "X" >>))

\* mutant of funccall_arm: a call without a rule keeps the caller's
\* after_argument
funccall_arm_inherit(self, node, out) ==
    LET n == get_function_name(node)
        name == IF n = None THEN << >> ELSE n[1]
        rule == Rules_functions(name)
        st == [mode |-> "Markup",
               after_argument |->
                   IF rule # None THEN rule[1].after_argument
                   ELSE self.after_argument]
        o1 == IF rule # None THEN add_encoded(out, << >>, rule[1].before) ELSE out
        o2 == convert_children(st, node.children, 1, o1)
    IN IF rule # None /\ ~o2.panicked
       THEN add_encoded(o2, << >>, rule[1].after) ELSE o2

\* SyntaxKind::FuncCall
funccall_arm(self, node, out) ==
    LET n == get_function_name(node)
        name == IF n = None THEN << >> ELSE n[1]
        rule == Rules_functions(name)
        st == [mode |-> "Markup",
               after_argument |->
                   IF rule # None THEN rule[1].after_argument ELSE << >>]
        o1 == IF rule # None THEN add_encoded(out, << >>, rule[1].before) ELSE out
        o2 == convert_children(st, node.children, 1, o1)
    IN IF rule # None /\ ~o2.panicked
       THEN add_encoded(o2, << >>, rule[1].after) ELSE o2

\* SyntaxKind::ContentBlock
contentblock_arm(self, node, out) ==
    LET o == convert_children(self, node.children, 1, out)
    IN IF self.after_argument # << >> /\ ~o.panicked
       THEN add_encoded(o, << >>, self.after_argument) ELSE o

\* SyntaxKind::Code | ModuleImport | ModuleInclude | LetBinding | ShowRule
\* | SetRule, and SyntaxKind::ListItem
markup_mode_arm(self, node, out) ==
    convert_children([self EXCEPT !.mode = "Markup"], node.children, 1, out)

\* mutant of heading_arm: the heading's children are walked in the
\* caller's mode
heading_arm_keep_mode(self, node, out) ==
    LET o == convert_children(self, node.children, 1,
                              add_encoded(out, << >>, NLNL))
    IN IF o.panicked THEN o ELSE add_encoded(o, << >>, NLNL)

\* SyntaxKind::Heading
heading_arm(self, node, out) ==
    LET o == convert_children([self EXCEPT !.mode = "Markup"], node.children, 1,
                              add_encoded(out, << >>, NLNL))
    IN IF o.panicked THEN o ELSE add_encoded(o, << >>, NLNL)

\* SyntaxKind::Markup
markup_arm(self, node, out) ==
    convert_children([self EXCEPT !.mode = "Text"], node.children, 1, out)

\* mutant of space_arm: the whole whitespace is the substitute
space_arm_whole(node, out) ==
    LET k == LastNewline(node.text)
    IN IF k > 0 /\ k < Len(node.text)
       THEN add_encoded(out, node.text, node.text)
       ELSE add_text(out, node.text)

\* SyntaxKind::Space if self.mode == Mode::Text
\* linebreak is a byte offset: the last line break's offset plus one
space_arm(node, out) ==
    LET k == LastNewline(node.text)
        linebreak == ByteLen(Prefix(node.text, k - 1)) + 1
    IN IF k > 0 /\ linebreak < ByteLen(node.text)
       THEN IF len_utf8(node.text[k]) = 1
            THEN add_encoded(out, node.text, Prefix(node.text, k))
            ELSE Panic(out)   \* the slice ends inside a character
       ELSE add_text(out, node.text)

\* SyntaxKind::Named
named_arm(self, node, out) ==
    IF node.children = << >> THEN Panic(out)   \* next().unwrap()
    ELSE
    LET rule == Rules_arguments(node.children[1].text)
        o1 == IF rule # None THEN add_encoded(out, << >>, rule[1].before) ELSE out
        o2 == convert_children(self, node.children, 1, o1)
    IN IF rule # None /\ ~o2.panicked
       THEN add_encoded(o2, << >>, rule[1].after) ELSE o2

\* the fallback arm
fallback_arm(self, node, out) ==
    convert_children(self, node.children, 1, add_markup(out, node.text))

State_convert(self, node, out) ==
    CASE node.kind = "Text" /\ self.mode = "Text" -> add_text(out, node.text)
      [] node.kind = "Equation" -> equation_arm(node, out)
      [] node.kind = "FuncCall" -> funccall_arm(self, node, out)
      [] node.kind = "ContentBlock" -> contentblock_arm(self, node, out)
      [] node.kind \in {"Code", "ModuleImport", "ModuleInclude", "LetBinding",
                        "ShowRule", "SetRule"} -> markup_mode_arm(self, node, out)
      [] node.kind = "Heading" -> heading_arm(self, node, out)
      [] node.kind = "Ref" -> ref_arm(node, out)
      [] node.kind = "Markup" -> markup_arm(self, node, out)
      [] node.kind = "Shorthand" /\ node.text = << "~" >> ->
            add_encoded(out, node.text, << " " >>)
      [] node.kind = "Space" /\ self.mode = "Text" -> space_arm(node, out)
      [] node.kind = "ListItem" -> markup_mode_arm(self, node, out)
      [] node.kind = "ListMarker" -> add_encoded(out, node.text, << "-", " " >>)
      [] node.kind = "Parbreak" -> add_encoded(out, node.text, NLNL)
      [] node.kind = "SmartQuote" /\ self.mode = "Text" -> add_text(out, node.text)
      [] node.kind = "Named" -> named_arm(self, node, out)
      [] OTHER -> fallback_arm(self, node, out)

\* mutant of convert_step: every child is a separation point
convert_step_any_child(child, out, max) ==
    LET o == State_convert(State_new, child, out)
    IN IF o.panicked THEN o ELSE maybe_seperate(o, max)

\* one iteration of convert's loop over the root's children
convert_step(child, out, max) ==
    LET o == State_convert(State_new, child, out)
    IN IF child.kind = "Parbreak" /\ ~o.panicked
       THEN maybe_seperate(o, max) ELSE o

\* ------------------------------------------------------------------------
\* The documents of the model: what typst_syntax::parse yields for short
\* sources
\* ------------------------------------------------------------------------
Text_ab == Leaf("Text", << "a", "b" >>)
Text_c == Leaf("Text", << "c" >>)
Space1 == Leaf("Space", << " " >>)
\* a line break followed by indentation
SpaceEnc == Leaf("Space", << " ", "\n", "\t" >>)
\* a line break and nothing after it
SpaceNl == Leaf("Space", << " ", "\n" >>)
\* U+2028, then a space
SpaceLS == Leaf("Space", << "LS", " " >>)
ParbreakNode == Leaf("Parbreak", << "\n", "\n" >>)
Hash == Leaf("Hash", << "#" >>)
MarkupOf(children) == Inner("Markup", children)
\* "= Intro"
HeadingIntro ==
    Inner("Heading", << Leaf("HeadingMarker", << "=" >>), Space1,
                        MarkupOf(<< Leaf("Text", << "I", "n", "t", "r", "o" >>) >>) >>)
\* "= c"
HeadingNode ==
    Inner("Heading", << Leaf("HeadingMarker", << "=" >>), Space1,
                        MarkupOf(<< Text_c >>) >>)
\* "$x$"
EquationNode ==
    Inner("Equation", << Leaf("Dollar", << "$" >>),
                         Inner("Math", << Leaf("Text", << "x" >>) >>),
                         Leaf("Dollar", << "$" >>) >>)
\* "*c*"
StrongNode ==
    Inner("Strong", << Leaf("Star", << "*" >>), MarkupOf(<< Text_c >>),
                       Leaf("Star", << "*" >>) >>)
\* "let x=BQ a BQ" (after a hash), where "BQ" is the backquote character
LetRaw ==
    Inner("LetBinding",
          << Leaf("Let", << "l", "e", "t" >>), Space1, Leaf("Ident", << "x" >>),
             Leaf("Eq", << "=" >>),
             Inner("Raw", << Leaf("RawDelim", << "BQ" >>), Leaf("Text", << "a" >>),
                             Leaf("RawDelim", << "BQ" >>) >>) >>)
\* "@a"
RefNode == Inner("Ref", << Leaf("RefMarker", << "@", "a" >>) >>)
\* "cell[c]" (after a hash)
ContentBlockOf(children) ==
    Inner("ContentBlock", << Leaf("LeftBracket", << "[" >>), MarkupOf(children),
                             Leaf("RightBracket", << "]" >>) >>)
CellCall ==
    Inner("FuncCall", << Leaf("Ident", << "c", "e", "l", "l" >>),
                         Inner("Args", << ContentBlockOf(<< Text_c >>) >>) >>)
\* "grid[c][c]" (after a hash)
GridCall ==
    Inner("FuncCall", << Leaf("Ident", << "g", "r", "i", "d" >>),
                         Inner("Args", << ContentBlockOf(<< Text_c >>),
                                          ContentBlockOf(<< Text_c >>) >>) >>)
\* "- c"
ListItemNode ==
    Inner("ListItem", << Leaf("ListMarker", << "-" >>), Space1,
                         MarkupOf(<< Text_c >>) >>)
\* "grid[#strong[c]][ab]" (after a hash): the first argument holds a call
\* that has no rule
GridNested ==
    Inner("FuncCall",
          << Leaf("Ident", << "g", "r", "i", "d" >>),
             Inner("Args",
                   << ContentBlockOf(
                          << Hash,
                             Inner("FuncCall",
                                   << Leaf("Ident", << "s", "t", "r", "o", "n", "g" >>),
                                      Inner("Args", << ContentBlockOf(<< Text_c >>) >>) >>) >>),
                      ContentBlockOf(<< Text_ab >>) >>) >>)
\* "$#grid[c][c]$": a call that has a rule, inside an equation
EquationGrid ==
    Inner("Equation", << Leaf("Dollar", << "$" >>),
                         Inner("Math", << Hash, GridCall >>),
                         Leaf("Dollar", << "$" >>) >>)
TildeNode == Leaf("Shorthand", << "~" >>)
QuoteNode == Leaf("SmartQuote", << "'" >>)

\* "Hello   \n\tworld."
ScenarioA ==
    << Leaf("Text", << "H", "e", "l", "l", "o" >>),
       Leaf("Space", << " ", " ", " ", "\n", "\t" >>),
       Leaf("Text", << "w", "o", "r", "l", "d", "." >>) >>

\* "= Intro"
ScenarioB == << HeadingIntro >>

TopNodes ==
    { Text_ab, Space1, SpaceEnc, ParbreakNode, HeadingNode, EquationNode,
      StrongNode, Hash, LetRaw }

ExtraNodes ==
    { SpaceNl, SpaceLS, RefNode, CellCall, GridCall, ListItemNode, TildeNode,
      QuoteNode, GridNested, EquationGrid }

SeqsUpTo(S, n) == UNION { [1..k -> S] : k \in 0..n }

IsWhitespace(node) == node.kind \in {"Space", "Parbreak"}

\* the lexer makes one node of a run of whitespace: no two whitespace nodes
\* are neighbours
Lexed(d) ==
    \A k \in 1..(Len(d) - 1) : ~(IsWhitespace(d[k]) /\ IsWhitespace(d[k + 1]))

Docs ==
    { d \in SeqsUpTo(TopNodes, MaxTop)
            \cup { << x >> : x \in ExtraNodes }
            \cup { << Text_ab, x >> : x \in ExtraNodes }
            \cup { << x, ParbreakNode, Text_ab >> : x \in ExtraNodes } : Lexed(d) }
    \cup { ScenarioA, ScenarioB }

\* ------------------------------------------------------------------------
\* convert (convert.rs), one step per child of the root
\* ------------------------------------------------------------------------
IdleConvert ==
    /\ doc = << >> /\ max_length = 0 /\ child_idx = 0
    /\ output = Output_new /\ chunks = << >> /\ pc = "idle"

IdleMapper ==
    /\ calls = << >> /\ mapper = << >> /\ tb = << >> /\ query = << >>
    /\ mpc = "idle"

IdleCache ==
    /\ cache = {} /\ next_cache = {} /\ paragraphs = << >>
    /\ para_idx = 0 /\ collected = << >> /\ called = << >>
    /\ last = None /\ requests = << >> /\ returned = None /\ cpc = "idle"
    /\ lt = "lt0"

IdleLsp ==
    /\ clock = 0 /\ receiver = << >> /\ on_change = None /\ check = None
    /\ shadow = {} /\ shadow_text = << >> /\ editor = << >>
    /\ text_version = 0 /\ running = None
    /\ published = << >> /\ handled = None /\ last_edit = None
    /\ trigger_since = FALSE /\ sent = 0 /\ lpc = "idle"

IdleOther ==
    /\ ops = 0 /\ suggestion = << >> /\ position = << >> /\ out_idx = 0
    /\ cli_position = << >> /\ sought = << >> /\ seeks = 0

Init ==
    /\ doc \in Docs
    /\ max_length \in 0..MaxThreshold
    /\ child_idx = 1
    /\ output = Output_new
    /\ chunks = << >>
    /\ pc = "walk"
    /\ IdleMapper /\ IdleCache /\ IdleLsp /\ IdleOther

\* state.convert(child, &mut output, rules) and, after a Parbreak,
\* output.maybe_seperate(max_length)
ConvertChild ==
    /\ pc = "walk" /\ child_idx <= Len(doc)
    /\ output' = convert_step(doc[child_idx], output, max_length)
    /\ child_idx' = child_idx + 1
    /\ pc' = IF output'.panicked THEN "panicked" ELSE "walk"
    /\ UNCHANGED << doc, max_length, chunks >>
    /\ UNCHANGED << mapperVars, cacheVars, lspVars, otherVars >>

\* output.result()
ConvertResult ==
    /\ pc = "walk" /\ child_idx > Len(doc)
    /\ chunks' = result(output)
    /\ pc' = "done"
    /\ UNCHANGED << doc, max_length, child_idx, output >>
    /\ UNCHANGED << mapperVars, cacheVars, lspVars, otherVars >>

\* ------------------------------------------------------------------------
\* Position and the output functions (src/src/output.rs), as handle_file
\* (src/src/main.rs) calls them on what convert returned
\* ------------------------------------------------------------------------
RECURSIVE SrcText(_), SrcTextSeq(_)
\* the source text of a node: its own text and that of its children
SrcText(node) == node.text \o SrcTextSeq(node.children)
SrcTextSeq(nodes) ==
    IF nodes = << >> THEN << >> ELSE SrcText(Head(nodes)) \o SrcTextSeq(Tail(nodes))

PRETTY_RANGE == 20

\* Position::new; content is what the Chars iterator has yet to yield
Position_new(content) ==
    [line |-> 1, column |-> 1, content |-> content, panicked |-> FALSE]

RECURSIVE advance(_, _)
\* Position::advance
advance(p, amount) ==
    IF amount = 0 \/ p.panicked THEN p
    ELSE IF p.content = << >>
         THEN [p EXCEPT !.panicked = TRUE]   \* self.content.next().unwrap()
         ELSE advance([line |-> IF Head(p.content) = "\n" THEN p.line + 1
                                ELSE p.line,
                       column |-> IF Head(p.content) = "\n" THEN 1
                                  ELSE p.column + 1,
                       content |-> Tail(p.content),
                       panicked |-> FALSE],
                      amount - 1)

\* mutant of output_plain: the tail of the chunk is counted from its start
output_plain_whole_tail(start, matches, total) ==
    IF matches = << >> THEN advance(start, total)
    ELSE LET info == matches[1]
             s == advance(start, info.offset)
             end == advance(s, info.length)
         IN IF end.panicked THEN end ELSE advance(s, total)

\* output_plain, for a response of at most one match
output_plain(start, matches, total) ==
    IF matches = << >> THEN advance(start, total)
    ELSE LET info == matches[1]
             s == advance(start, info.offset)
             end == advance(s, info.length)
         IN IF end.panicked THEN end ELSE advance(s, total - info.offset)

\* output_pretty, for a response of at most one match; print_pretty does
\* not move the Position
output_pretty(start, matches, total) ==
    IF matches = << >> THEN advance(start, total)
    ELSE LET info == matches[1]
         IN IF info.offset > PRETTY_RANGE
            THEN advance(advance(start, info.offset - PRETTY_RANGE),
                         total - (info.offset - PRETTY_RANGE))
            ELSE advance(start, total)

\* the matches a response may hold for a chunk of this many characters:
\* none, or one at the start, in the middle or at the end of the chunk,
\* empty or reaching to the end of the chunk
MatchesFor(total) ==
    { << >> } \cup
    { << [offset |-> o, length |-> l] >> :
        o \in {0, total \div 2, total}, l \in {0, total \div 2, total} }

\* let mut position = Position::new(&text)
StartOutput ==
    /\ pc = "done"
    /\ position' = Some(Position_new(SrcTextSeq(doc)))
    /\ out_idx' = 0
    /\ pc' = "output"
    /\ UNCHANGED << doc, max_length, child_idx, output, chunks, ops, suggestion >>
    /\ UNCHANGED << seekVars, mapperVars, cacheVars, lspVars >>

\* one iteration of for items in data: the backend has answered and the
\* response is handed to output_plain or output_pretty with items.1; the
\* match, if there is one, lies within the chunk
OutputChunk ==
    /\ pc = "output" /\ out_idx < Len(chunks)
    /\ LET total == chunks[out_idx + 1].total
       IN \E matches \in MatchesFor(total), plain \in BOOLEAN :
            /\ matches # << >> => matches[1].offset + matches[1].length <= total
            /\ position' = Some(IF plain
                                THEN output_plain(position[1], matches, total)
                                ELSE output_pretty(position[1], matches, total))
    /\ out_idx' = out_idx + 1
    /\ pc' = IF position'[1].panicked THEN "output_panicked" ELSE "output"
    /\ UNCHANGED << doc, max_length, child_idx, output, chunks, ops, suggestion >>
    /\ UNCHANGED << seekVars, mapperVars, cacheVars, lspVars >>

Next == ConvertChild \/ ConvertResult \/ StartOutput \/ OutputChunk

Spec == Init /\ [][Next]_vars

\* ------------------------------------------------------------------------
\* Properties of convert
\* ------------------------------------------------------------------------
RECURSIVE Concat(_)
Concat(ss) == IF ss = << >> THEN << >> ELSE Head(ss) \o Concat(Tail(ss))

\* what the checker sees of an annotation
Visible(an) ==
    IF an.text # None THEN an.text[1]
    ELSE IF an.interpret_as # None THEN an.interpret_as[1] ELSE << >>

StreamOf(anns) == Concat([k \in 1..Len(anns) |-> Visible(anns[k])])

\* the stream of everything convert returned
WholeStream == Concat([k \in 1..Len(chunks) |-> StreamOf(chunks[k].annotations)])

EndsWith(s, suffix) ==
    /\ Len(s) >= Len(suffix)
    /\ SubSeq(s, Len(s) - Len(suffix) + 1, Len(s)) = suffix

RECURSIVE SrcLen(_), SrcLenSeq(_)
\* the number of source characters of a node
SrcLen(node) == Len(node.text) + SrcLenSeq(node.children)
SrcLenSeq(nodes) ==
    IF nodes = << >> THEN 0 ELSE SrcLen(Head(nodes)) + SrcLenSeq(Tail(nodes))

RECURSIVE SumTotals(_, _)
SumTotals(cs, k) == IF k = 0 THEN 0 ELSE cs[k].total + SumTotals(cs, k - 1)

\* the source offsets right after a top-level paragraph break
ParbreakEnds ==
    { SrcLenSeq(SubSeq(doc, 1, j)) :
        j \in { i \in 1..Len(doc) : doc[i].kind = "Parbreak" } }

LastOf(s) == s[Len(s)]

\* C2: every chunk convert returns, except the last, ends right after a
\* top-level paragraph break: its last annotation is the encoded segment
\* that carries the paragraph break, and the source offset where it ends is
\* the end of a top-level Parbreak node.
NoSplitInsideParagraph ==
    pc = "done" =>
        \A k \in 1..(Len(chunks) - 1) :
            /\ chunks[k].annotations # << >>
            /\ LET an == LastOf(chunks[k].annotations)
               IN /\ an.interpret_as # None /\ an.markup # None
                  /\ EndsWith(an.interpret_as[1], NLNL)
                  /\ EndsWith(an.markup[1], ParbreakNode.text)
            /\ SumTotals(chunks, k) \in ParbreakEnds

\* C2 witness: convert returned two chunks of a three-node document
SplitAtParbreakReached ==
    /\ pc = "done" /\ Len(chunks) >= 2 /\ Len(doc) = 3
    /\ chunks[2].total > 0

\* the step just taken handled a top-level paragraph break
AfterParbreak ==
    pc = "walk" /\ child_idx > 1 /\ doc[child_idx - 1].kind = "Parbreak"

\* that step started a new chunk
JustSeparated ==
    /\ Len(output.items) >= 2
    /\ LastOf(output.items) = EmptyItem
    /\ output.state = StText(<< >>)

\* source characters emitted into the chunk the paragraph break went to,
\* the paragraph break included
Accumulated ==
    IF JustSeparated THEN output.items[Len(output.items) - 1].total
    ELSE LastOf(output.items).total + CharCount(output.state.t)

\* source characters of the segments pushed into that chunk before the
\* pending encoded segment that carries the paragraph break
PushedBeforePending ==
    IF JustSeparated
    THEN LET c == output.items[Len(output.items) - 1]
         IN c.total - CharCount(LastOf(c.annotations).markup[1])
    ELSE LastOf(output.items).total

\* C3 as stated: after a top-level paragraph break a new chunk is started
\* iff the source characters accumulated in the current chunk, that
\* paragraph break included, exceed max_length.
SplitIffAccumulatedExceeds ==
    AfterParbreak => (JustSeparated <=> Accumulated > max_length)

\* C3 amended: after a top-level paragraph break a new chunk is started iff
\* the source characters of the segments already pushed into the current
\* chunk exceed max_length; the pending encoded segment, which holds the
\* paragraph break, is not counted.
SplitIffPushedExceeds ==
    AfterParbreak => (JustSeparated <=> PushedBeforePending > max_length)

\* C3 witness: a separation at the smallest count that separates
SplitJustAboveThreshold ==
    AfterParbreak /\ JustSeparated /\ PushedBeforePending = max_length + 1

RECURSIVE MarkupClassified(_, _)
\* the node and all its descendants fall to the rules that emit Markup:
\* the fallback rule, with text and whitespace only in Markup mode
MarkupClassified(node, mode) ==
    /\ node.kind \notin {"Equation", "Ref", "Heading", "Shorthand", "ListMarker",
                         "Parbreak", "FuncCall", "Named", "ContentBlock"}
    /\ node.kind \in {"Text", "Space", "SmartQuote"} => mode = "Markup"
    /\ LET m == CASE node.kind \in {"Code", "ModuleImport", "ModuleInclude",
                                    "LetBinding", "ShowRule", "SetRule",
                                    "ListItem"} -> "Markup"
                  [] node.kind = "Markup" -> "Text"
                  [] OTHER -> mode
       IN \A k \in 1..Len(node.children) : MarkupClassified(node.children[k], m)

\* an equation or a reference: a placeholder, its children skipped
Skipped(node) == node.kind \in {"Equation", "Ref"}

\* C4: nodes classified as Markup put no character into the stream: a
\* document of Markup-classified nodes only yields an empty stream, and
\* with equations and references among them the stream holds nothing but
\* their placeholders.
MarkupInvisible ==
    pc = "done" =>
        /\ (\A k \in 1..Len(doc) : MarkupClassified(doc[k], "Text"))
                => WholeStream = << >>
        /\ (\A k \in 1..Len(doc) :
                MarkupClassified(doc[k], "Text") \/ Skipped(doc[k]))
                => \A j \in 1..Len(WholeStream) : WholeStream[j] \in {"0", "X"}

\* C4 witness: a document of Markup-classified nodes, some of them Text
\* nodes in Markup mode, has been converted
MarkupOnlyConverted ==
    /\ pc = "done" /\ Len(doc) >= 2
    /\ \A k \in 1..Len(doc) : MarkupClassified(doc[k], "Text")
    /\ \E k \in 1..Len(doc) : doc[k] = LetRaw
    /\ SumTotals(chunks, Len(chunks)) > 0

\* a Text-mode whitespace node with a line break followed by more whitespace
IndentedBreak(node) ==
    /\ node.kind = "Space"
    /\ LastNewline(node.text) > 0
    /\ LastNewline(node.text) < Len(node.text)

\* the step just taken handled such a node at the top level (Text mode)
AfterIndentedBreak ==
    /\ pc \in {"walk", "panicked"} /\ child_idx > 1
    /\ IndentedBreak(doc[child_idx - 1])

Str_Hello == << "H", "e", "l", "l", "o" >>
Str_world == << "w", "o", "r", "l", "d", "." >>

\* C5 as stated: such a node reaches the checker as the substitute "\n"
\* alone, and "Hello   \n\tworld." yields the stream "Hello\nworld.".
IndentedBreakIsNewline ==
    /\ AfterIndentedBreak =>
            /\ output.state.kind = "Encoded"
            /\ EndsWith(output.state.t, doc[child_idx - 1].text)
            /\ output.state.a = NL
    /\ (pc = "done" /\ doc = ScenarioA) =>
            WholeStream = Str_Hello \o NL \o Str_world

\* C5 amended: such a node, its last line break being a one-byte
\* character, is one encoded segment whose original is the whole node and
\* whose substitute is the node's text up to and including that line
\* break, and "Hello   \n\tworld." yields the stream "Hello   \nworld.".
IndentedBreakKeepsLead ==
    /\ (AfterIndentedBreak
        /\ len_utf8(doc[child_idx - 1].text[LastNewline(doc[child_idx - 1].text)]) = 1)
          => LET t == doc[child_idx - 1].text
             IN /\ pc = "walk"
                /\ output.state.kind = "Encoded"
                /\ EndsWith(output.state.t, t)
                /\ EndsWith(output.state.a, Prefix(t, LastNewline(t)))
                /\ Len(output.converted_text) >= LastNewline(t)
                /\ EndsWith(output.converted_text, Prefix(t, LastNewline(t)))
    /\ (pc = "done" /\ doc = ScenarioA) =>
            WholeStream = Str_Hello \o << " ", " ", " ", "\n" >> \o Str_world

\* C5 witness: scenario A has been converted
ScenarioAConverted ==
    pc = "done" /\ doc = ScenarioA /\ Len(chunks) = 1

IsNonEmpty(an) == an # new_text(<< >>)

\* C6: the heading "= Intro" yields the stream "\n\nIntro\n\n": an encoded
\* segment with empty original and substitute "\n\n", the marker and its
\* space as Markup, the body as Text, and an encoded segment with empty
\* original and substitute "\n\n" (after the empty Text segment the
\* emitter starts with).
HeadingIntroStream ==
    (pc = "done" /\ doc = ScenarioB) =>
        /\ Len(chunks) = 1
        /\ WholeStream = NLNL \o << "I", "n", "t", "r", "o" >> \o NLNL
        /\ SelectSeq(chunks[1].annotations, IsNonEmpty) =
              << new_interpreted_markup(<< >>, NLNL),
                 new_markup(<< "=", " " >>),
                 new_text(<< "I", "n", "t", "r", "o" >>),
                 new_interpreted_markup(<< >>, NLNL) >>

\* C6 witness: scenario B has been converted
ScenarioBConverted ==
    pc = "done" /\ doc = ScenarioB /\ chunks[1].total = 7

\* ------------------------------------------------------------------------
\* Mapper (backends/remote.rs) and TextBuilderRemote (remote/mod.rs)
\* ------------------------------------------------------------------------
Block_Text(s) == [kind |-> "Text", s |-> s]
Block_Markup(s) == [kind |-> "Markup", s |-> s]
Block_Encoded(text, markup) == [kind |-> "Encoded", text |-> text, markup |-> markup]

\* TextBuilderRemote::new (backends/remote.rs)
Mapper_new ==
    [blocks |-> << >>, lt_position |-> 0, source_position |-> 0, block_index |-> 0]

\* TextBuilderRemote::new (remote/mod.rs)
TextBuilderRemote_new == [converted |-> << >>, map |-> << >>, position |-> 0]

add_block(m, block) ==
    LET n == Len(m.blocks)
    IN IF n > 0 /\ m.blocks[n].kind = block.kind
       THEN IF block.kind = "Encoded"
            THEN [m EXCEPT !.blocks[n] =
                    Block_Encoded(m.blocks[n].text + block.text,
                                  m.blocks[n].markup + block.markup)]
            ELSE [m EXCEPT !.blocks[n] = [kind |-> block.kind,
                                          s |-> m.blocks[n].s + block.s]]
       ELSE [m EXCEPT !.blocks = Append(m.blocks, block)]

\* the checker-visible length and the source length of a block
lt_len(b) == CASE b.kind = "Text" -> b.s
               [] b.kind = "Markup" -> 0
               [] b.kind = "Encoded" -> b.text

\* mutant of source_len: an encoded block is as long in the source as its
\* substitute
source_len_as_text(b) ==
    CASE b.kind = "Text" -> b.s
      [] b.kind = "Markup" -> b.s
      [] b.kind = "Encoded" -> b.text

source_len(b) == CASE b.kind = "Text" -> b.s
                   [] b.kind = "Markup" -> b.s
                   [] b.kind = "Encoded" -> b.markup

RECURSIVE source_back(_, _), source_fwd(_, _)

\* while pos < self.lt_position { ... }
source_back(m, pos) ==
    IF pos < m.lt_position
    THEN IF m.block_index = 0
         THEN [mapper |-> m, value |-> None]     \* usize underflow
         ELSE LET b == m.blocks[m.block_index]   \* blocks[block_index - 1]
              IN source_back([m EXCEPT !.block_index = m.block_index - 1,
                                       !.lt_position = m.lt_position - lt_len(b),
                                       !.source_position =
                                            m.source_position - source_len(b)],
                             pos)
    ELSE source_fwd(m, pos)

\* loop { ... }
source_fwd(m, pos) ==
    IF m.block_index >= Len(m.blocks)
    THEN [mapper |-> m, value |-> None]          \* index out of bounds
    ELSE LET b == m.blocks[m.block_index + 1]    \* blocks[block_index]
             diff == pos - m.lt_position
         IN IF b.kind # "Markup" /\ diff < lt_len(b)
            THEN [mapper |-> m, value |-> Some(m.source_position + diff)]
            ELSE source_fwd([m EXCEPT !.block_index = m.block_index + 1,
                                      !.lt_position = m.lt_position + lt_len(b),
                                      !.source_position =
                                            m.source_position + source_len(b)],
                            pos)

\* Mapper::source: the mapper afterwards and Some(result), None on a panic
Mapper_source(m, pos) == source_back(m, pos)

\* the characters of the builder calls: a run of one character
Run(c, n) == [k \in 1..n |-> c]

\* TextBuilder::add_text, for both builders
tb_add_text(t, text) ==
    [converted |-> t.converted \o text,
     map |-> t.map \o [k \in 1..Len(text) |-> t.position + k - 1],
     position |-> t.position + Len(text)]

tb_add_markup(t, markup) == [t EXCEPT !.position = t.position + CharCount(markup)]

tb_add_encoded(t, markup, text) ==
    [converted |-> t.converted \o text,
     map |-> t.map \o [k \in 1..Len(text) |-> t.position],
     position |-> t.position + CharCount(markup)]

SegLens == 0..MaxSeg

InitMapper ==
    /\ calls = << >>
    /\ mapper = Mapper_new
    /\ tb = TextBuilderRemote_new
    /\ query = None
    /\ mpc = "build"
    /\ IdleConvert /\ IdleCache /\ IdleLsp /\ IdleOther

AddText ==
    /\ mpc = "build" /\ Len(calls) < MaxCalls
    /\ \E n \in SegLens :
        LET text == Run("t", n)
        IN /\ calls' = Append(calls, [op |-> "text", markup |-> text, text |-> text])
           /\ mapper' = add_block(mapper, Block_Text(CharCount(text)))
           /\ tb' = tb_add_text(tb, text)
    /\ UNCHANGED << query, mpc, convertVars, cacheVars, lspVars, otherVars >>

AddMarkup ==
    /\ mpc = "build" /\ Len(calls) < MaxCalls
    /\ \E n \in SegLens :
        LET markup == Run("m", n)
        IN /\ calls' = Append(calls, [op |-> "markup", markup |-> markup, text |-> << >>])
           /\ mapper' = add_block(mapper, Block_Markup(CharCount(markup)))
           /\ tb' = tb_add_markup(tb, markup)
    /\ UNCHANGED << query, mpc, convertVars, cacheVars, lspVars, otherVars >>

AddEncoded ==
    /\ mpc = "build" /\ Len(calls) < MaxCalls
    /\ \E n \in SegLens, k \in SegLens :
        LET markup == Run("m", n)
            text == Run("e", k)
        IN /\ calls' = Append(calls, [op |-> "encoded", markup |-> markup, text |-> text])
           /\ mapper' = add_block(mapper,
                                  Block_Encoded(CharCount(text), CharCount(markup)))
           /\ tb' = tb_add_encoded(tb, markup, text)
    /\ UNCHANGED << query, mpc, convertVars, cacheVars, lspVars, otherVars >>

\* convert has returned and the server has answered
Respond ==
    /\ mpc = "build"
    /\ mpc' = "query"
    /\ UNCHANGED << calls, mapper, tb, query, convertVars, cacheVars, lspVars, otherVars >>

\* A match of the response is mapped: text_builder.mapper.source(pos) in
\* backends/remote.rs, text_builder.map[pos] in remote/mod.rs, pos an
\* offset of the match (at most the length of the submitted text).  Either
\* one panics on an index out of bounds.
Lookup ==
    /\ mpc = "query"
    /\ \E pos \in 0..Len(tb.converted) :
        LET r == Mapper_source(mapper, pos)
            v == IF pos < Len(tb.map) THEN Some(tb.map[pos + 1]) ELSE None
        IN /\ mapper' = r.mapper
           /\ query' = Some([pos |-> pos, source |-> r.value, mapped |-> v])
           /\ mpc' = IF r.value = None \/ v = None THEN "panicked" ELSE "query"
    /\ UNCHANGED << calls, tb, convertVars, cacheVars, lspVars, otherVars >>

\* One iteration of check_source's loop over response.matches: the
\* Suggestion's start is mapped from m.offset and then its end from
\* m.offset + m.length, by mapper.source in backends/remote.rs and by map[]
\* in remote/mod.rs.  The match is at least one character of the submitted
\* text.  A lookup that panics ends the check.  A run maps one match,
\* the first of the response, on the mapper as the builder left it;
\* lookups that follow one another on the same mapper are Lookup's.
MapMatch ==
    /\ mpc = "query" /\ query = None
    /\ \E offset \in 0..(Len(tb.converted) - 1) :
       \E length \in 1..(Len(tb.converted) - offset) :
        LET s == Mapper_source(mapper, offset)
            e == IF s.value = None THEN s
                 ELSE Mapper_source(s.mapper, offset + length)
            at(pos) == IF pos < Len(tb.map) THEN Some(tb.map[pos + 1]) ELSE None
        IN /\ mapper' = e.mapper
           /\ suggestion' = Some([offset |-> offset, length |-> length,
                                  start |-> s.value, end |-> e.value,
                                  map_start |-> at(offset),
                                  map_end |-> at(offset + length)])
           /\ mpc' = IF e.value = None \/ at(offset + length) = None
                     THEN "panicked" ELSE "mapped"
    /\ UNCHANGED << calls, tb, query, ops, position, out_idx, seekVars,
                    convertVars, cacheVars, lspVars >>

NextMapper ==
    AddText \/ AddMarkup \/ AddEncoded \/ Respond \/ Lookup \/ MapMatch

SpecMapper == InitMapper /\ [][NextMapper]_vars

\* ------------------------------------------------------------------------
\* Properties of the mappers
\* ------------------------------------------------------------------------
RECURSIVE OriginOf(_, _, _, _)
\* where stream character i (from 0) comes from, by the calls alone: the
\* call that emitted it and the source offset of that character (for
\* add_text) or of the call's markup (for add_encoded)
OriginOf(cs, i, streamPos, sourcePos) ==
    LET c == Head(cs)
    IN IF i < streamPos + Len(c.text)
       THEN [op |-> c.op,
             source |-> IF c.op = "text" THEN sourcePos + (i - streamPos)
                        ELSE sourcePos]
       ELSE OriginOf(Tail(cs), i, streamPos + Len(c.text), sourcePos + Len(c.markup))

Origin(i) == OriginOf(calls, i, 0, 0)

\* C1: a stream index whose character add_text emitted maps back, through
\* Mapper.source and through map[], to the source offset of that character.
TextOffsetsRoundTrip ==
    (query # None /\ query[1].pos < Len(tb.converted)
        /\ Origin(query[1].pos).op = "text")
      => /\ query[1].source = Some(Origin(query[1].pos).source)
         /\ query[1].mapped = Some(Origin(query[1].pos).source)

\* C1 witness: Mapper.source has moved back to a text character that lies
\* behind markup and an encoded segment, at a source offset other than its
\* stream index
TextBehindMarkupMapped ==
    /\ query # None
    /\ query[1].pos < Len(tb.converted)
    /\ Origin(query[1].pos).op = "text"
    /\ query[1].source # Some(query[1].pos)
    /\ \E k \in 1..Len(calls) : calls[k].op = "encoded"
    /\ mapper.block_index + 1 < Len(mapper.blocks)

\* ------------------------------------------------------------------------
\* Cache (lsp/src/main.rs, cli/src/main.rs): a map from a text to one
\* (language, suggestions) pair, here the set of its entries
\* ------------------------------------------------------------------------
Cache_new == {}

HasKey(c, text) == \E e \in c : e.text = text

EntryOf(c, text) == CHOOSE e \in c : e.text = text

\* mutant of Cache_get: the entry stays in the cache
Cache_get_keeping(c, text, lang) ==
    IF ~HasKey(c, text)
    THEN [cache |-> c, value |-> None]
    ELSE [cache |-> c,
          value |-> IF lang = EntryOf(c, text).lang
                    THEN Some(EntryOf(c, text).suggestions) ELSE None]

\* Cache::get: the cache afterwards and the value returned
Cache_get(c, text, lang) ==
    IF ~HasKey(c, text)
    THEN [cache |-> c, value |-> None]
    ELSE [cache |-> c \ {EntryOf(c, text)},
          value |-> IF lang = EntryOf(c, text).lang
                    THEN Some(EntryOf(c, text).suggestions) ELSE None]

\* Cache::insert
Cache_insert(c, text, lang, suggestions) ==
    { e \in c : e.text # text }
        \cup { [text |-> text, lang |-> lang, suggestions |-> suggestions] }

\* the chunk texts and languages convert::document may yield
Texts == {"p", "q"}
Langs == {"en-US", "de-DE"}
Paragraph == [text : Texts, lang : Langs]
ParagraphLists == SeqsUpTo(Paragraph, MaxChunks)

\* the backends LanguageTool::new may build: one per configuration (rules
\* disabled, dictionary, ...); State::new builds the first
Backends == {"lt0", "lt1"}

\* self.lt.check_text(lang, text) when it succeeds: what the backend, as
\* it is configured, finds in this text for this language
check_text(lang, text) == << "suggestions for", text, lang, "by", lt >>

\* anyhow::Result<Vec<Diagnostic>>: Ok(diagnostics) or Err(error); an error
\* carries no diagnostics
Ok(diagnostics) == [ok |-> TRUE, diagnostics |-> diagnostics]
Err == [ok |-> FALSE, diagnostics |-> << >>]

\* mutant of paragraph_at: the chunks are taken from the back
paragraph_at_reversed(ps, idx) == ps[Len(ps) - idx]

\* for (idx, (text, mapping)) in paragraphs.into_iter().enumerate(): the
\* chunk of the iteration that follows idx finished ones
paragraph_at(ps, idx) == ps[idx + 1]

InitCache ==
    /\ cache = Cache_new
    /\ next_cache = Cache_new
    /\ paragraphs = << >>
    /\ para_idx = 0
    /\ collected = << >>
    /\ called = << >>
    /\ last = None
    /\ requests = << >>
    /\ returned = None
    /\ cpc = "ready"
    /\ lt = "lt0"
    /\ IdleConvert /\ IdleMapper /\ IdleLsp /\ IdleOther

\* get_diagnostics / handle_file up to the loop over the paragraphs
CheckStart ==
    /\ cpc = "ready"
    /\ paragraphs' \in ParagraphLists
    /\ next_cache' = Cache_new
    /\ para_idx' = 0
    /\ collected' = << >>
    /\ called' = << >>
    /\ requests' = << >>
    /\ returned' = None
    /\ cpc' = "pass"
    /\ UNCHANGED << cache, last, lt, convertVars, mapperVars, lspVars, otherVars >>

\* the document does not compile (or has no file id): the check returns
\* Ok(Vec::new()) before it touches the cache
CheckNotCompiled ==
    /\ cpc = "ready"
    /\ returned' = Some(Ok(<< >>))
    /\ UNCHANGED << cache, next_cache, paragraphs, para_idx, collected, called,
                    last, requests, cpc, lt, convertVars, mapperVars, lspVars,
                    otherVars >>

\* one iteration of the loop, the backend answering if it is asked
CheckParagraph ==
    /\ cpc = "pass" /\ para_idx < Len(paragraphs)
    /\ LET p == paragraph_at(paragraphs, para_idx)
           r == Cache_get(cache, p.text, p.lang)
           suggestions == IF r.value # None THEN r.value[1]
                          ELSE check_text(p.lang, p.text)
       IN /\ cache' = r.cache
          /\ called' = Append(called, r.value = None)
          /\ requests' = IF r.value = None THEN Append(requests, p)
                          ELSE requests
          /\ collected' = Append(collected, suggestions)
          /\ next_cache' = Cache_insert(next_cache, p.text, p.lang, suggestions)
    /\ para_idx' = para_idx + 1
    /\ UNCHANGED << paragraphs, last, returned, cpc, lt, convertVars, mapperVars,
                    lspVars, otherVars >>

\* one iteration of the loop, the backend failing: check_text(..).await?
\* returns the error from the check
CheckParagraphFailed ==
    /\ cpc = "pass" /\ para_idx < Len(paragraphs)
    /\ LET p == paragraph_at(paragraphs, para_idx)
           r == Cache_get(cache, p.text, p.lang)
       IN /\ r.value = None
          /\ cache' = r.cache
    /\ returned' = Some(Err)
    /\ cpc' = "ready"
    /\ last' = None
    \* the locals of the check are dropped
    /\ next_cache' = Cache_new /\ paragraphs' = << >> /\ para_idx' = 0
    /\ collected' = << >> /\ called' = << >> /\ requests' = << >>
    /\ UNCHANGED << lt, convertVars, mapperVars, lspVars, otherVars >>

\* after the loop: self.cache = next_cache
CheckFinish ==
    /\ cpc = "pass" /\ para_idx = Len(paragraphs)
    /\ cache' = next_cache
    /\ last' = Some([paragraphs |-> paragraphs, collected |-> collected])
    /\ returned' = Some(Ok(collected))
    /\ cpc' = "ready"
    \* the locals of the check are dropped
    /\ next_cache' = Cache_new /\ paragraphs' = << >> /\ para_idx' = 0
    /\ collected' = << >> /\ called' = << >> /\ requests' = << >>
    /\ UNCHANGED << lt, convertVars, mapperVars, lspVars, otherVars >>

NextCache ==
    \/ CheckStart \/ CheckNotCompiled \/ CheckParagraph
    \/ CheckParagraphFailed \/ CheckFinish

SpecCache == InitCache /\ [][NextCache]_vars

\* ------------------------------------------------------------------------
\* Properties of the cache and the check pass
\* ------------------------------------------------------------------------
\* a pass is running on the cache that the completed pass before it left
SecondPass == cpc = "pass" /\ last # None

PairsOf(ps) == { ps[k] : k \in 1..Len(ps) }

\* C7: a second pass over the same list of chunks makes no backend call
\* and hands the collector the same suggestions for every chunk.
RecheckIsIdempotent ==
    (SecondPass /\ paragraphs = last[1].paragraphs) =>
        \A k \in 1..para_idx :
            ~called[k] /\ collected[k] = last[1].collected[k]

\* C8: the entries of a cache are identified by (text, language): every
\* chunk the pass has inserted into next_cache is found there under its
\* text and language, whatever was inserted for the same text in another
\* language.
EntriesKeyedByTextAndLanguage ==
    cpc = "pass" =>
        \A k \in 1..para_idx :
            Cache_get(next_cache, paragraphs[k].text, paragraphs[k].lang).value
                = Some(collected[k])

\* C9: in the second of two consecutive passes the backend is called for
\* exactly the chunks whose (text, language) did not occur in the first.
RecheckOnlyChanged ==
    SecondPass =>
        \A k \in 1..para_idx :
            called[k] <=> paragraphs[k] \notin PairsOf(last[1].paragraphs)

\* C10: a hit consumes the entry: once get(text, language) has returned
\* suggestions in a pass, a further get with the same text and language
\* on the session's cache returns nothing.
HitConsumesEntry ==
    cpc = "pass" =>
        \A k \in 1..para_idx :
            ~called[k] =>
                Cache_get(cache, paragraphs[k].text, paragraphs[k].lang).value = None

\* C10 witness: the pass has just taken a chunk from the cache while
\* another entry is still in it
HitTaken ==
    /\ cpc = "pass" /\ para_idx > 0 /\ ~called[para_idx]
    /\ cache # Cache_new

\* C11 as stated: when the backend call for a chunk fails, the check ends
\* there, so that no later chunk is sent, and the caller of the check
\* receives the suggestions collected from the chunks before it.
FailureKeepsCollected ==
    [][ (cpc = "pass" /\ returned' # None /\ ~returned'[1].ok) =>
            (cpc' = "ready" /\ returned'[1].diagnostics = collected) ]_vars

RECURSIVE SentOf(_, _, _)
\* the chunks among the first k of ps that the flags mark as sent
SentOf(ps, flags, k) ==
    IF k = 0 THEN << >>
    ELSE IF flags[k] THEN Append(SentOf(ps, flags, k - 1), ps[k])
         ELSE SentOf(ps, flags, k - 1)

\* C15: a pass handles its chunks in document order: the k-th suggestions
\* handed to the collector are those of the k-th chunk, whether they came
\* from the cache or from the backend, and the backend has been sent, in
\* document order, exactly the handled chunks that missed the cache.
PassInChunkOrder ==
    cpc = "pass" =>
        /\ Len(collected) = para_idx
        /\ \A k \in 1..para_idx :
               collected[k] = check_text(paragraphs[k].lang, paragraphs[k].text)
        /\ requests = SentOf(paragraphs, called, para_idx)

\* C15 witness: a pass has handled a chunk it took from the cache and then
\* a different chunk it sent to the backend
HitThenMissHandled ==
    /\ cpc = "pass" /\ para_idx >= 2
    /\ ~called[1] /\ called[2]
    /\ paragraphs[1] # paragraphs[2]

\* C20 as stated: no step of a running pass, a failing one included,
\* changes the session cache; only the end of a completed pass does.
CacheOnlyReplaced ==
    [][ (cpc = "pass" /\ para_idx < Len(paragraphs)) => cache' = cache ]_vars

\* ------------------------------------------------------------------------
\* Further properties of convert
\* ------------------------------------------------------------------------
\* C16 as stated: the walker is total: whatever the tree, convert does not
\* abort; it goes through the root's children and returns a result.
WalkerNeverAborts ==
    /\ pc # "panicked"
    /\ pc = "done" => child_idx = Len(doc) + 1 /\ chunks # << >>

\* the step just taken converted a top-level node of one of these kinds
AfterChildOf(kinds) ==
    pc = "walk" /\ child_idx > 1 /\ doc[child_idx - 1].kind \in kinds

StartsWith(s, prefix) ==
    Len(s) >= Len(prefix) /\ SubSeq(s, 1, Len(prefix)) = prefix

\* C17 as stated: the content of a heading and of a list item is preceded
\* and followed by the separator "\n\n", an encoded segment with an empty
\* original, and a paragraph break reaches the stream as "\n\n".
ParagraphsSeparated ==
    /\ AfterChildOf({"Heading", "ListItem"}) =>
           /\ EndsWith(output.converted_text, NLNL)
           /\ output.state = StEncoded(<< >>, NLNL)
           /\ child_idx = 2 => StartsWith(output.converted_text, NLNL)
    /\ AfterChildOf({"Parbreak"}) =>
           /\ EndsWith(output.converted_text, NLNL)
           /\ output.state.kind = "Encoded" \/ JustSeparated

\* C19 as stated: every chunk convert returns holds at least one source
\* character.
NoEmptyChunk ==
    pc = "done" => \A k \in 1..Len(chunks) : chunks[k].total > 0

\* a function call whose name has an entry in the rule table
IsRuledCall(node) ==
    /\ node.kind = "FuncCall"
    /\ get_function_name(node) # None
    /\ Rules_functions(get_function_name(node)[1]) # None

RuleOf(call) == Rules_functions(get_function_name(call)[1])[1]

RECURSIVE RuledCalls(_, _)
\* the calls with a rule among these nodes and below them; those inside an
\* equation or a reference only if inSkipped
RuledCalls(nodes, inSkipped) ==
    IF nodes = << >> THEN {}
    ELSE LET n == Head(nodes)
         IN (IF IsRuledCall(n) THEN {n} ELSE {})
            \cup (IF n.kind \in {"Equation", "Ref"} /\ ~inSkipped THEN {}
                  ELSE RuledCalls(n.children, inSkipped))
            \cup RuledCalls(Tail(nodes), inSkipped)

\* the content-block arguments of a call, in order
BlockArgs(call) ==
    SelectSeq(call.children[Len(call.children)].children,
              LAMBDA a : a.kind = "ContentBlock")

\* what the content of a content block puts into the stream on its own
ContentOf(block) ==
    convert_children([mode |-> "Markup", after_argument |-> << >>],
                     block.children, 1, Output_new).converted_text

RECURSIVE ArgumentStream(_, _)
ArgumentStream(blocks, after_argument) ==
    IF blocks = << >> THEN << >>
    ELSE ContentOf(Head(blocks)) \o after_argument
             \o ArgumentStream(Tail(blocks), after_argument)

\* the stream the claim describes for a call with a rule
SeparatedCall(call) ==
    RuleOf(call).before
        \o ArgumentStream(BlockArgs(call), RuleOf(call).after_argument)
        \o RuleOf(call).after

Infix(part, s) ==
    \E i \in 0..(Len(s) - Len(part)) : SubSeq(s, i + 1, i + Len(part)) = part

\* C18 as stated: every call with a rule, wherever it stands, is in the
\* stream as: before, then the content of each content-block argument
\* followed by after_argument, then after; the content blocks of a nested
\* call without a rule are followed by no separator.
RuledCallsSeparated ==
    pc = "done" =>
        \A call \in RuledCalls(doc, TRUE) : Infix(SeparatedCall(call), WholeStream)

\* C18 amended: the same, for every call with a rule that does not stand
\* inside an equation or a reference, whose subtrees the walker skips; a
\* document that is one such call has exactly that stream.
ConvertedRuledCallsSeparated ==
    pc = "done" =>
        /\ \A call \in RuledCalls(doc, FALSE) :
               Infix(SeparatedCall(call), WholeStream)
        /\ (Len(doc) = 1 /\ IsRuledCall(doc[1])) =>
               WholeStream = SeparatedCall(doc[1])

\* C18 witness: the call grid[#strong[c]][ab] has been converted: two
\* separated content blocks, the first with a nested call without a rule
NestedCallConverted ==
    /\ pc = "done" /\ doc = << GridNested >>
    /\ WholeStream = << "c", "\n", "a", "b", "\n" >>

\* ------------------------------------------------------------------------
\* The language server's loop (lsp/src/main.rs): main_loop, next_action,
\* the notification handlers and check_change
\* ------------------------------------------------------------------------
Uris == {"a.typ", "b.typ"}
Kinds == {"change", "save", "open", "close"}
Message == [kind : Kinds, url : Uris]

\* CheckData; path is uri_path(url)
CheckData(check_time, url) == [check_time |-> check_time, url |-> url]

\* mutant of file_change: the check is due at once
file_change_at_once(chk, duration, t, url) ==
    IF duration = None THEN chk ELSE Some(CheckData(t, url))

\* file_change: State.check afterwards
file_change(chk, duration, t, url) ==
    IF duration = None THEN chk ELSE Some(CheckData(t + duration[1], url))

\* mutant of file_save: a check that is pending is kept
file_save_keep_pending(chk, t, url) ==
    IF chk # None THEN chk ELSE Some(CheckData(t, url))

\* file_save: State.check afterwards
file_save(chk, t, url) == Some(CheckData(t, url))

\* file_open: State.check afterwards
file_open(chk, t, url) == Some(CheckData(t, url))

\* file_close: State.check afterwards
file_close(chk, t, url) == chk

\* no file is open, and no file has a shadow Source
NoTexts == [u \in Uris |-> None]
NoShadows == [u \in Uris |-> 0]

\* the text the editor holds once it has sent a notification of this kind
\* for a file whose text was this
Edited(text, kind) ==
    CASE kind = "open" -> Some(0)
      [] kind = "change" -> Some(text[1] + 1)
      [] kind = "close" -> None
      [] OTHER -> text

\* mutant of take: the check stays in the slot
take_leaving(chk) == chk

\* Option::take: what it leaves behind
take(chk) == None

InitLsp ==
    /\ clock = 0
    /\ receiver = << >>
    /\ on_change \in {None} \cup { Some(d) : d \in 1..MaxDelay }
    /\ check = None
    /\ shadow = {}
    /\ shadow_text = NoShadows
    /\ editor = NoTexts
    /\ text_version = 0
    /\ running = None
    /\ published = << >>
    /\ handled = None
    /\ last_edit = None
    /\ trigger_since = FALSE
    /\ sent = 0
    /\ lpc = "wait"
    /\ IdleConvert /\ IdleMapper /\ IdleCache /\ IdleOther

\* the time up to which the model lets the clock run: MaxTime, or the
\* deadline of the pending check when that is later
Horizon ==
    IF check # None /\ check[1].check_time > MaxTime
    THEN check[1].check_time ELSE MaxTime

\* time passes
Tick ==
    /\ lpc \in {"wait", "checking"}
    /\ clock < Horizon
    /\ clock' = clock + 1
    /\ UNCHANGED << receiver, on_change, check, shadow, shadow_text, editor,
                    text_version, running,
                    published, handled, last_edit, trigger_since, sent, lpc,
                    convertVars, mapperVars, cacheVars, otherVars >>

\* the client sends a notification: it opens a file that is not open, or
\* changes, saves or closes one that is
ClientSends ==
    /\ lpc \in {"wait", "checking"}
    /\ sent < MaxMessages
    /\ \E m \in Message :
          /\ (m.kind = "open") <=> (editor[m.url] = None)
          /\ receiver' = Append(receiver, m)
          /\ editor' = [editor EXCEPT ![m.url] = Edited(@, m.kind)]
    /\ sent' = sent + 1
    /\ UNCHANGED << clock, on_change, check, shadow, shadow_text, text_version,
                    running,
                    published, handled, last_edit, trigger_since, lpc,
                    convertVars, mapperVars, cacheVars, otherVars >>

\* a turn of main_loop in which next_action returns Action::Message: a
\* message that is there is received, whether or not a check is due, and
\* State::message hands it to its handler
MessageTurn ==
    /\ lpc = "wait" /\ receiver # << >>
    /\ Head(receiver).kind \in Kinds
    /\ LET m == Head(receiver)
       IN /\ receiver' = Tail(receiver)
          /\ handled' = Some([kind |-> m.kind, url |-> m.url, at |-> clock,
                              before |-> check])
          /\ CASE m.kind = "change" ->
                    IF m.url \notin shadow
                    THEN \* self.world.shadow_file(&path).unwrap()
                         /\ lpc' = "panicked"
                         /\ UNCHANGED << check, shadow, shadow_text,
                                         text_version, last_edit,
                                         trigger_since >>
                    ELSE /\ shadow_text' = [shadow_text EXCEPT
                                               ![m.url] = @ + 1]
                         /\ text_version' = text_version + 1
                         /\ check' = file_change(check, on_change, clock, m.url)
                         /\ last_edit' = Some(clock)
                         /\ trigger_since' = FALSE
                         /\ UNCHANGED << shadow, lpc >>
               [] m.kind = "save" ->
                    /\ check' = file_save(check, clock, m.url)
                    /\ trigger_since' = (last_edit # None)
                    /\ UNCHANGED << shadow, shadow_text, text_version,
                                    last_edit, lpc >>
               [] m.kind = "open" ->
                    /\ shadow' = shadow \cup {m.url}
                    /\ shadow_text' = [shadow_text EXCEPT ![m.url] = 0]
                    /\ check' = file_open(check, clock, m.url)
                    /\ trigger_since' = (last_edit # None)
                    /\ UNCHANGED << text_version, last_edit, lpc >>
               [] m.kind = "close" ->
                    /\ shadow' = shadow \ {m.url}
                    /\ shadow_text' = [shadow_text EXCEPT ![m.url] = 0]
                    /\ check' = file_close(check, clock, m.url)
                    /\ UNCHANGED << text_version, last_edit, trigger_since, lpc >>
    /\ UNCHANGED << clock, on_change, editor, running, published, sent,
                    convertVars, mapperVars, cacheVars, otherVars >>

\* a turn of main_loop in which next_action returns Action::Check:
\* recv_deadline found no message and the deadline has passed;
\* self.check.take() empties State.check and check_change starts
CheckTurn ==
    /\ lpc = "wait" /\ receiver = << >>
    /\ check # None /\ clock >= check[1].check_time
    /\ running' = Some([url |-> check[1].url, started |-> clock,
                        version |-> text_version])
    /\ check' = take(check)
    /\ handled' = None
    /\ lpc' = "checking"
    /\ UNCHANGED << clock, receiver, on_change, shadow, shadow_text, editor,
                    text_version, published,
                    last_edit, trigger_since, sent,
                    convertVars, mapperVars, cacheVars, otherVars >>

\* check_change: get_diagnostics returned Ok and the diagnostics are sent
CheckPublishes ==
    /\ lpc = "checking"
    /\ published' = Append(published, [url |-> running[1].url,
                                       version |-> running[1].version])
    /\ running' = None
    /\ lpc' = "wait"
    /\ UNCHANGED << clock, receiver, on_change, check, shadow, shadow_text,
                    editor, text_version,
                    handled, last_edit, trigger_since, sent,
                    convertVars, mapperVars, cacheVars, otherVars >>

\* check_change: get_diagnostics returned an error, which is logged
CheckFails ==
    /\ lpc = "checking"
    /\ running' = None
    /\ lpc' = "wait"
    /\ UNCHANGED << clock, receiver, on_change, check, shadow, shadow_text,
                    editor, text_version,
                    published, handled, last_edit, trigger_since, sent,
                    convertVars, mapperVars, cacheVars, otherVars >>

NextLsp ==
    \/ Tick \/ ClientSends \/ MessageTurn \/ CheckTurn
    \/ CheckPublishes \/ CheckFails

SpecLsp == InitLsp /\ [][NextLsp]_vars

\* ------------------------------------------------------------------------
\* Properties of the language server's loop
\* ------------------------------------------------------------------------
\* C12 as stated: with on_change = N, a check starts no earlier than N
\* after the most recent edit, whatever else arrived in between.
DebounceAlways ==
    (lpc = "checking" /\ on_change # None /\ last_edit # None) =>
        running[1].started >= last_edit[1] + on_change[1]

\* C12 amended: with on_change = N, a check starts no earlier than N after
\* the most recent edit, unless a save or an open was handled after that
\* edit; a close in between changes nothing.
DebounceUnlessSaveOrOpen ==
    (lpc = "checking" /\ on_change # None /\ last_edit # None
        /\ ~trigger_since) =>
        running[1].started >= last_edit[1] + on_change[1]

\* C12 witness: a check started exactly N after the last edit
CheckStartedAfterQuiescence ==
    /\ lpc = "checking" /\ on_change # None /\ last_edit # None
    /\ ~trigger_since
    /\ running[1].started = last_edit[1] + on_change[1]

\* the check an edit, save or open leaves pending
PendingAfter(h) ==
    Some(CheckData(IF h.kind = "change" /\ on_change # None
                   THEN h.at + on_change[1] ELSE h.at,
                   h.url))

\* C13 as stated: State.check holds at most one check; an edit, a save or
\* an open replaces it by one for its own document and deadline, and the
\* slot is empty once the check has been taken for execution.
PendingCheckReplaced ==
    /\ Len(check) <= 1
    /\ (handled # None /\ handled[1].kind \in {"change", "save", "open"}) =>
           check = PendingAfter(handled[1])
    /\ lpc = "checking" => check = None

\* C13 amended: the same, an edit counting only when on_change is
\* configured; without it an edit leaves State.check as it was.
PendingCheckReplacedWhenConfigured ==
    /\ Len(check) <= 1
    /\ (handled # None
           /\ \/ handled[1].kind \in {"save", "open"}
              \/ handled[1].kind = "change" /\ on_change # None) =>
           check = PendingAfter(handled[1])
    /\ (handled # None /\ handled[1].kind = "change" /\ on_change = None) =>
           check = handled[1].before
    /\ lpc = "checking" => check = None

\* C13 witness: an edit has replaced a check pending for another document
PendingCheckOverwritten ==
    /\ handled # None /\ handled[1].kind = "change" /\ on_change # None
    /\ handled[1].before # None
    /\ handled[1].before[1].url # handled[1].url
    /\ check = PendingAfter(handled[1])

\* an edit is waiting in the receiver
EditWaiting == \E i \in 1..Len(receiver) : receiver[i].kind = "change"

\* C14 as stated: a check in flight is not preempted: no message is
\* handled before it completes; if an edit arrived meanwhile, the check
\* publishes nothing when it completes; and once that edit is handled a
\* check of its document is pending.
EditSupersedesRunningCheck ==
    [][ /\ (lpc = "checking" /\ lpc' = "checking") =>
               /\ running' = running /\ text_version' = text_version
               /\ SubSeq(receiver', 1, Len(receiver)) = receiver
        /\ (lpc = "checking" /\ lpc' = "wait" /\ EditWaiting) =>
               published' = published
        /\ (lpc = "wait" /\ receiver # << >> /\ receiver' = Tail(receiver)
               /\ Head(receiver).kind = "change" /\ lpc' = "wait") =>
               (check' # None /\ check'[1].url = Head(receiver).url)
      ]_vars

\* ------------------------------------------------------------------------
\* An Output driven call by call (convert.rs): add_text, add_markup,
\* add_encoded and maybe_seperate in any order, then result
\* ------------------------------------------------------------------------
\* the strings handed to the Output
EmitTexts == { << >>, << "a" >> }
EmitMarkups == { << >>, << "#" >> }
EmitSubstitutes == { << >>, << "\n" >> }

InitOutput ==
    /\ doc = << >> /\ max_length = 0 /\ child_idx = 0
    /\ output = Output_new
    /\ chunks = << >>
    /\ pc = "emit"
    /\ ops = 0
    /\ suggestion = None /\ position = None /\ out_idx = 0
    /\ cli_position = None /\ sought = None /\ seeks = 0
    /\ IdleMapper /\ IdleCache /\ IdleLsp

\* output.add_text(text)
EmitText ==
    /\ pc = "emit" /\ ops < MaxOps
    /\ \E text \in EmitTexts : output' = add_text(output, text)
    /\ ops' = ops + 1
    /\ UNCHANGED << doc, max_length, child_idx, chunks, pc, suggestion,
                    position, out_idx, seekVars,
                    mapperVars, cacheVars, lspVars >>

\* output.add_markup(text)
EmitMarkup ==
    /\ pc = "emit" /\ ops < MaxOps
    /\ \E text \in EmitMarkups : output' = add_markup(output, text)
    /\ ops' = ops + 1
    /\ UNCHANGED << doc, max_length, child_idx, chunks, pc, suggestion,
                    position, out_idx, seekVars,
                    mapperVars, cacheVars, lspVars >>

\* output.add_encoded(text, res)
EmitEncoded ==
    /\ pc = "emit" /\ ops < MaxOps
    /\ \E text \in EmitMarkups, res \in EmitSubstitutes :
          output' = add_encoded(output, text, res)
    /\ ops' = ops + 1
    /\ UNCHANGED << doc, max_length, child_idx, chunks, pc, suggestion,
                    position, out_idx, seekVars,
                    mapperVars, cacheVars, lspVars >>

\* output.maybe_seperate(max)
EmitSeparate ==
    /\ pc = "emit" /\ ops < MaxOps
    /\ \E max \in 0..MaxThreshold : output' = maybe_seperate(output, max)
    /\ ops' = ops + 1
    /\ UNCHANGED << doc, max_length, child_idx, chunks, pc, suggestion,
                    position, out_idx, seekVars,
                    mapperVars, cacheVars, lspVars >>

\* output.result()
EmitResult ==
    /\ pc = "emit"
    /\ chunks' = result(output)
    /\ pc' = "done"
    /\ UNCHANGED << doc, max_length, child_idx, output, ops, suggestion,
                    position, out_idx, seekVars,
                    mapperVars, cacheVars, lspVars >>

NextOutput ==
    EmitText \/ EmitMarkup \/ EmitEncoded \/ EmitSeparate \/ EmitResult

SpecOutput == InitOutput /\ [][NextOutput]_vars

\* ------------------------------------------------------------------------
\* Properties of the Output
\* ------------------------------------------------------------------------
\* Text, Markup or Encoded
KindOf(an) ==
    IF an.text # None THEN "Text"
    ELSE IF an.interpret_as # None THEN "Encoded" ELSE "Markup"

NoTwoAlike(anns) ==
    \A k \in 1..(Len(anns) - 1) : KindOf(anns[k]) # KindOf(anns[k + 1])

\* the annotations pushed so far, over all chunks
Pushed(out) == Concat([k \in 1..Len(out.items) |-> out.items[k].annotations])

\* no chunk, under construction or returned, holds two neighbours of one
\* kind, and the pending segment is of another kind than the one pushed
\* last into the current chunk
NoAdjacentSameKind ==
    /\ \A k \in 1..Len(output.items) : NoTwoAlike(output.items[k].annotations)
    /\ \A k \in 1..Len(chunks) : NoTwoAlike(chunks[k].annotations)
    /\ LastOf(output.items).annotations # << >> =>
           KindOf(LastOf(LastOf(output.items).annotations)) # output.state.kind

\* a step pushes nothing, or it pushes the pending segment alone, and then
\* a segment of another kind has become pending, or a chunk was separated
PushedOnlyWhenDue ==
    Pushed(output') # Pushed(output) =>
        /\ Pushed(output') = Append(Pushed(output), StateItem(output.state))
        /\ \/ output'.state.kind # output.state.kind
           \/ Len(output'.items) = Len(output.items) + 1

\* C21: after any sequence of add_text, add_markup, add_encoded and chunk
\* separations no chunk holds two adjacent annotations of one kind; the
\* pending segment is pushed only when a segment of another kind follows
\* or a chunk is separated, and the final flush, which leaves the Output
\* as it is, adds the pending segment and nothing else to the result.
MergeDiscipline ==
    /\ []NoAdjacentSameKind
    /\ [][PushedOnlyWhenDue]_vars
    /\ [](pc = "done" =>
            Concat([k \in 1..Len(chunks) |-> chunks[k].annotations])
                = Append(Pushed(output), StateItem(output.state)))

\* C21 witness: after a separation two calls of one kind were merged into
\* one annotation of the second chunk
MergedInSecondChunk ==
    /\ pc = "done" /\ Len(chunks) = 2
    /\ chunks[1].total > 0
    /\ chunks[2].annotations = << new_text(<< >>), new_markup(<< "#", "#" >>) >>

\* ------------------------------------------------------------------------
\* Further properties of the mappers
\* ------------------------------------------------------------------------
\* C22 as stated: the mapping is monotonic: for stream positions p <= q of
\* one request the source offset of p is at most that of q, so that the
\* Suggestion made of a match has start <= end, by Mapper.source and by
\* map[] alike.
MappingMonotonic ==
    (suggestion # None /\ suggestion[1].end # None) =>
        /\ suggestion[1].start[1] <= suggestion[1].end[1]
        /\ suggestion[1].map_end # None =>
               suggestion[1].map_start[1] <= suggestion[1].map_end[1]

\* C24 as stated: for every match that lies within the submitted stream,
\* one that ends exactly at its end included, the start and the end of the
\* Suggestion are computed: neither Mapper.source nor map[] runs out of
\* its block list or its offset map.
MatchAlwaysMapped ==
    suggestion # None =>
        /\ suggestion[1].start # None /\ suggestion[1].end # None
        /\ suggestion[1].map_start # None /\ suggestion[1].map_end # None
        /\ mpc # "panicked"

\* ------------------------------------------------------------------------
\* Properties of the chunk totals and the output Position
\* ------------------------------------------------------------------------
\* the source characters an annotation stands for
OriginalOf(an) ==
    IF an.text # None THEN an.text[1]
    ELSE IF an.markup # None THEN an.markup[1] ELSE << >>

OriginalsOf(anns) == Concat([k \in 1..Len(anns) |-> OriginalOf(anns[k])])

Drop(s, n) == SubSeq(s, n + 1, Len(s))

\* C23: the totals convert returns partition the source: a chunk's total
\* is the number of source characters of its annotations, the chunks'
\* originals put together are the document, so that the totals add up to
\* its character count, and the Position advanced by the total of each
\* chunk stands after the characters of the chunks output so far, at the
\* end of the text after the last, never past it.
TotalsPartitionSource ==
    /\ pc \in {"done", "output", "output_panicked"} =>
          /\ \A k \in 1..Len(chunks) :
                chunks[k].total = Len(OriginalsOf(chunks[k].annotations))
          /\ Concat([k \in 1..Len(chunks) |-> OriginalsOf(chunks[k].annotations)])
                = SrcTextSeq(doc)
          /\ SumTotals(chunks, Len(chunks)) = Len(SrcTextSeq(doc))
    /\ pc # "output_panicked"
    /\ pc = "output" =>
          /\ ~position[1].panicked
          /\ position[1].content
                = Drop(SrcTextSeq(doc), SumTotals(chunks, out_idx))
          /\ out_idx = Len(chunks) => position[1].content = << >>

\* C23 witness: the responses of two chunks have been output and the
\* Position, a line break behind it, is at the end of the text
TwoChunksOutput ==
    /\ pc = "output" /\ out_idx = 2 /\ Len(chunks) = 2
    /\ chunks[1].total > 0 /\ chunks[2].total > 0
    /\ position[1].line > 1
    /\ position[1].content = << >>

\* ------------------------------------------------------------------------
\* Position and StringCursor (cli/src/output.rs; the same code is in
\* src/src/languagetool.rs and, as TextWithPosition, in src/src/lib.rs,
\* there with lines and columns counted from 0)
\* ------------------------------------------------------------------------
\* StringCursor::new
StringCursor_new(text) == [text |-> text, utf_8_index |-> 0, char_index |-> 0]

\* the characters of text[b..]: those from byte offset b on
CharsFrom(text, b) ==
    LET k == CHOOSE k \in 0..Len(text) : ByteLen(Prefix(text, k)) = b
    IN SubSeq(text, k + 1, Len(text))

\* mutant of CharsBackFrom: the characters are not reversed
CharsBackFrom_in_order(text, b) ==
    LET k == CHOOSE k \in 0..Len(text) : ByteLen(Prefix(text, k)) = b
    IN SubSeq(text, 1, k)

\* the characters of text[..b], the last first: .chars().rev()
CharsBackFrom(text, b) ==
    LET k == CHOOSE k \in 0..Len(text) : ByteLen(Prefix(text, k)) = b
    IN [i \in 1..k |-> text[k + 1 - i]]

\* mutant of IsLineBreak: a carriage return is no line break
IsLineBreak_lf_only(c) == c = "\n"

\* matches!(c, '\n' | '\r')
IsLineBreak(c) == c \in {"\n", "\r"}

RECURSIVE offset_forward(_, _, _, _), offset_backward(_, _, _, _)

\* the loop of the first branch over cs, the characters taken
offset_forward(cur, cs, wanted, stop_at_newline) ==
    IF cs = << >>
    THEN [cursor |-> cur,
          value |-> IF cur.char_index = wanted THEN Some(cur.utf_8_index)
                    ELSE None]
    ELSE IF stop_at_newline /\ IsLineBreak(Head(cs))
         THEN [cursor |-> cur, value |-> Some(cur.utf_8_index)]
         ELSE offset_forward(
                  [cur EXCEPT !.utf_8_index = cur.utf_8_index + len_utf8(Head(cs)),
                              !.char_index = cur.char_index + 1],
                  Tail(cs), wanted, stop_at_newline)

\* the loop of the second branch
offset_backward(cur, cs, wanted, stop_at_newline) ==
    IF cs = << >>
    THEN [cursor |-> cur,
          value |-> IF cur.char_index = wanted THEN Some(cur.utf_8_index)
                    ELSE None]
    ELSE IF stop_at_newline /\ IsLineBreak(Head(cs))
         THEN [cursor |-> cur, value |-> Some(cur.utf_8_index)]
         ELSE offset_backward(
                  [cur EXCEPT !.utf_8_index = cur.utf_8_index - len_utf8(Head(cs)),
                              !.char_index = cur.char_index - 1],
                  Tail(cs), wanted, stop_at_newline)

Take(s, n) == SubSeq(s, 1, IF n < Len(s) THEN n ELSE Len(s))

\* StringCursor::utf_8_offset: the cursor afterwards and the value returned
utf_8_offset(cur, char_index, stop_at_newline) ==
    IF cur.char_index < char_index
    THEN offset_forward(cur,
                        Take(CharsFrom(cur.text, cur.utf_8_index),
                             char_index - cur.char_index),
                        char_index, stop_at_newline)
    ELSE IF cur.char_index > char_index
    THEN offset_backward(cur,
                         Take(CharsBackFrom(cur.text, cur.utf_8_index),
                              cur.char_index - char_index),
                         char_index, stop_at_newline)
    ELSE [cursor |-> cur, value |-> Some(cur.utf_8_index)]

\* Position::new (cli/src/output.rs)
CliPosition_new(content) ==
    [line |-> 1, column |-> 1, content |-> StringCursor_new(content)]

RECURSIVE count_forward(_, _, _), count_backward(_, _, _)
\* for c in self.content.text[start..end].chars(), first branch of seek
count_forward(line, column, cs) ==
    IF cs = << >> THEN [line |-> line, column |-> column]
    ELSE IF Head(cs) = "\n" THEN count_forward(line + 1, 1, Tail(cs))
         ELSE count_forward(line, column + 1, Tail(cs))

\* for c in self.content.text[end..start].chars(), second branch of seek
count_backward(line, column, cs) ==
    IF cs = << >> THEN [line |-> line, column |-> column]
    ELSE IF Head(cs) = "\n" THEN count_backward(line - 1, 1, Tail(cs))
         ELSE count_backward(line, column - 1, Tail(cs))

\* the characters of text[a..b]
CharsBetween(text, a, b) ==
    Take(CharsFrom(text, a), Len(CharsFrom(text, a)) - Len(CharsFrom(text, b)))

\* Position::seek: the Position afterwards, what utf_8_offset returned and
\* the (end, line, column) that seek returns
seek(self, char_index, stop_at_newline) ==
    LET start == self.content.utf_8_index
        r == utf_8_offset(self.content, char_index, stop_at_newline)
        end == IF r.value # None THEN r.value[1] ELSE ByteLen(self.content.text)
        lc == IF start < end
              THEN count_forward(self.line, self.column,
                                 CharsBetween(self.content.text, start, end))
              ELSE IF end > start
              THEN count_backward(self.line, self.column,
                                  CharsBetween(self.content.text, end, start))
              ELSE [line |-> self.line, column |-> self.column]
    IN [position |-> [line |-> lc.line, column |-> lc.column, content |-> r.cursor],
        value |-> r.value,
        returned |-> << end, lc.line, lc.column >>]

\* the texts of the model: a one-byte character, one of three bytes, and
\* the two line breaks
SeekChars == {"a", "LS", "\n", "\r"}
SeekTexts == SeqsUpTo(SeekChars, MaxText)

InitSeek ==
    /\ cli_position \in { Some(CliPosition_new(t)) : t \in SeekTexts }
    /\ sought = None
    /\ seeks = 0
    /\ ops = 0 /\ suggestion = None /\ position = None /\ out_idx = 0
    /\ IdleConvert /\ IdleMapper /\ IdleCache /\ IdleLsp

\* position.seek(char_index, stop_at_newline)
Seek ==
    /\ seeks < MaxSeeks
    /\ cli_position # None
    /\ \E char_index \in 0..(MaxText + 1), stop_at_newline \in BOOLEAN :
        LET r == seek(cli_position[1], char_index, stop_at_newline)
        IN /\ cli_position' = Some(r.position)
           /\ sought' = Some([char_index |-> char_index,
                              stop_at_newline |-> stop_at_newline,
                              before |-> cli_position[1].content,
                              none_before |->
                                  /\ sought # None
                                  /\ sought[1].value = None \/ sought[1].none_before,
                              value |-> r.value,
                              returned |-> r.returned])
    /\ seeks' = seeks + 1
    /\ UNCHANGED << ops, suggestion, position, out_idx,
                    convertVars, mapperVars, cacheVars, lspVars >>

NextSeek == Seek

SpecSeek == InitSeek /\ [][NextSeek]_vars

\* ------------------------------------------------------------------------
\* Properties of Position and StringCursor
\* ------------------------------------------------------------------------
\* the characters that lie before byte offset b
CharsBefore(text, b) ==
    Take(text, Len(text) - Len(CharsFrom(text, b)))

\* the line of a byte offset, the first line being 1
LineAt(text, b) ==
    1 + Cardinality({ k \in 1..Len(CharsBefore(text, b)) : text[k] = "\n" })

\* the column of a byte offset: 1 at the start of a line
ColumnAt(text, b) ==
    LET cs == CharsBefore(text, b)
        nl == { k \in 1..Len(cs) : cs[k] = "\n" }
        from == IF nl = {} THEN 0 ELSE CHOOSE k \in nl : \A j \in nl : j <= k
    IN 1 + Len(cs) - from

\* C25 as stated: after any sequence of seeks, forward or backward, with
\* or without stop_at_newline, the line and column of the Position, which
\* seek returns with the offset, are the line and column of the byte
\* offset the cursor is at.
PositionTracksCursor ==
    cli_position # None =>
        LET p == cli_position[1]
        IN /\ p.line = LineAt(p.content.text, p.content.utf_8_index)
           /\ p.column = ColumnAt(p.content.text, p.content.utf_8_index)
           /\ sought # None =>
                 sought[1].returned = << p.content.utf_8_index, p.line, p.column >>

\* C26: utf_8_offset(n, false) returns the byte offset of the n-th
\* character when the text has that many characters and None when it has
\* fewer, whatever calls were made before it, those that returned None
\* included.
OffsetOfNthCharacter ==
    (sought # None /\ ~sought[1].stop_at_newline) =>
        LET text == cli_position[1].content.text
            n == sought[1].char_index
        IN /\ n <= Len(text) => sought[1].value = Some(ByteLen(Prefix(text, n)))
           /\ n > Len(text) => sought[1].value = None
           /\ n <= Len(text) =>
                 /\ cli_position[1].content.char_index = n
                 /\ cli_position[1].content.utf_8_index = ByteLen(Prefix(text, n))

\* C26 witness: after a call that returned None, a call moved the cursor
\* back over a character of several bytes to an offset other than n
OffsetFoundAfterNone ==
    /\ sought # None /\ ~sought[1].stop_at_newline
    /\ sought[1].none_before
    /\ sought[1].before.char_index > sought[1].char_index
    /\ sought[1].value = Some(1)
    /\ sought[1].before.utf_8_index = 4

\* the cursor of the last seek reached the character it was sent to, the
\* end of the text counting for every index behind it
ReachedTarget ==
    LET text == cli_position[1].content.text
        n == sought[1].char_index
    IN cli_position[1].content.char_index = (IF n < Len(text) THEN n ELSE Len(text))

\* C27: utf_8_offset(n, true) does not move the cursor across a line
\* break: the text between the cursor's offsets before and after the call
\* holds no '\n' and no '\r'; the cursor stops short of its target only
\* with a line break next in its direction, at the line break going
\* forward and just after it going backward, and the offset returned is
\* then the one it stopped at.
NeverAcrossLineBreak ==
    (sought # None /\ sought[1].stop_at_newline) =>
        LET text == cli_position[1].content.text
            from == sought[1].before.char_index
            to == cli_position[1].content.char_index
            lo == IF from < to THEN from ELSE to
            hi == IF from < to THEN to ELSE from
        IN /\ \A k \in (lo + 1)..hi : text[k] \notin {"\n", "\r"}
           /\ ~ReachedTarget =>
                 /\ sought[1].value = Some(cli_position[1].content.utf_8_index)
                 /\ from < sought[1].char_index =>
                       (to >= from /\ text[to + 1] \in {"\n", "\r"})
                 /\ from > sought[1].char_index =>
                       (to <= from /\ to > 0 /\ text[to] \in {"\n", "\r"})
           /\ cli_position[1].content.utf_8_index = ByteLen(Prefix(text, to))

\* C27 witness: going backward the cursor passed a character and stopped
\* just after a carriage return, short of its target
StoppedAfterLineBreak ==
    /\ sought # None /\ sought[1].stop_at_newline
    /\ sought[1].before.char_index > cli_position[1].content.char_index
    /\ cli_position[1].content.char_index > sought[1].char_index
    /\ cli_position[1].content.text[cli_position[1].content.char_index] = "\r"


\* ------------------------------------------------------------------------
\* The language server's loop under fairness: main_loop keeps taking
\* turns (a message that waits is handled, a check that is due and finds
\* no message is taken), the backend answers the check that awaits it,
\* and time passes.  The client is under no obligation: it may stop
\* sending at any time, and sends MaxMessages messages at most.
\* ------------------------------------------------------------------------
FairLsp ==
    /\ WF_vars(Tick)
    /\ WF_vars(MessageTurn)
    /\ WF_vars(CheckTurn)
    /\ WF_vars(CheckPublishes \/ CheckFails)

SpecLspLive == InitLsp /\ [][NextLsp]_vars /\ FairLsp

Durations == {None} \cup { Some(d) : d \in 1..MaxDelay }

\* what becomes of a DidChangeConfiguration: the settings do not
\* deserialize, or LanguageTool::new fails with them ("rejected"); the
\* options file they name cannot be read ("error"); the root they name
\* cannot be canonicalized ("panic"); or they are applied, with or
\* without a root
ConfigOutcomes == {"rejected", "error", "panic", "applied", "applied with root"}

\* the client sends a DidChangeConfiguration
ConfigSends ==
    /\ lpc \in {"wait", "checking"}
    /\ sent < MaxMessages
    /\ receiver' = Append(receiver, [kind |-> "config"])
    /\ sent' = sent + 1
    /\ UNCHANGED << clock, on_change, check, shadow, shadow_text, editor,
                    text_version, running, published, handled, last_edit,
                    trigger_since, lpc,
                    convertVars, mapperVars, cacheVars, otherVars >>

\* a turn of main_loop in which next_action returns the
\* DidChangeConfiguration and State::notification hands it to
\* config_change
ConfigTurn ==
    /\ lpc = "wait" /\ receiver # << >>
    /\ Head(receiver).kind = "config"
    /\ receiver' = Tail(receiver)
    /\ handled' = Some([kind |-> "config", at |-> clock, before |-> check])
    /\ \E outcome \in ConfigOutcomes, backend \in Backends,
          duration \in Durations :
          CASE outcome = "rejected" ->
                 UNCHANGED << lt, on_change, shadow, shadow_text, lpc >>
            [] outcome = "error" ->
                 \* File::open(path)?: the error leaves main_loop
                 /\ lpc' = "stopped"
                 /\ UNCHANGED << lt, on_change, shadow, shadow_text >>
            [] outcome = "panic" ->
                 \* LtWorld::new: root.canonicalize().unwrap(), self.lt
                 \* being replaced already
                 /\ lt' = backend
                 /\ lpc' = "panicked"
                 /\ UNCHANGED << on_change, shadow, shadow_text >>
            [] outcome = "applied" ->
                 /\ lt' = backend
                 /\ on_change' = duration
                 /\ UNCHANGED << shadow, shadow_text, lpc >>
            [] outcome = "applied with root" ->
                 \* self.world = LtWorld::new(root)
                 /\ lt' = backend
                 /\ shadow' = {}
                 /\ shadow_text' = NoShadows
                 /\ on_change' = duration
                 /\ UNCHANGED lpc
    /\ UNCHANGED << clock, check, editor, text_version, running, published,
                    last_edit, trigger_since, sent,
                    cache, next_cache, paragraphs, para_idx, collected, called,
                    last, requests, returned, cpc,
                    convertVars, mapperVars, otherVars >>

NextLspConfig == NextLsp \/ ConfigSends \/ ConfigTurn

SpecLspConfig == InitLsp /\ [][NextLspConfig]_vars

\* World::source for a file of the root: the shadow Source when there is
\* one, the file on disk otherwise
World_source(u) ==
    IF u \in shadow THEN << "shadow", shadow_text[u] >> ELSE << "disk" >>

\* C29: the server never fails to find the shadow Source of a file that
\* is changed; and whenever no message is waiting, the files with a
\* shadow Source are those that are open in the editor, the text of each
\* is the editor's, and a check reads the editor's text of a file that is
\* open and the disk for one that is not.
ShadowTracksEditor ==
    /\ (lpc = "panicked" /\ handled # None) => handled[1].kind # "change"
    /\ (receiver = << >>) =>
          \A u \in Uris :
              /\ (u \in shadow) <=> (editor[u] # None)
              /\ (u \in shadow) => shadow_text[u] = editor[u][1]
              /\ World_source(u) = IF editor[u] # None
                                   THEN << "shadow", editor[u][1] >>
                                   ELSE << "disk" >>


\* ------------------------------------------------------------------------
\* The check pass of the language server with configuration changes
\* between the passes (lsp/src/main.rs): State::config_change as the
\* cache and the backend see it
\* ------------------------------------------------------------------------
\* main_loop handles a DidChangeConfiguration between two checks:
\* config_change replaces self.lt when the settings are accepted, and
\* leaves self.cache as it is whatever becomes of them
ConfigChange ==
    /\ cpc = "ready"
    /\ \E outcome \in ConfigOutcomes, backend \in Backends :
          CASE outcome = "rejected" -> UNCHANGED << lt, cpc >>
            [] outcome = "error" -> cpc' = "stopped" /\ UNCHANGED lt
            [] outcome = "panic" -> lt' = backend /\ cpc' = "stopped"
            [] OTHER -> lt' = backend /\ UNCHANGED cpc
    /\ UNCHANGED << cache, next_cache, paragraphs, para_idx, collected, called,
                    last, requests, returned,
                    convertVars, mapperVars, lspVars, otherVars >>

NextReconfigure == NextCache \/ ConfigChange

SpecReconfigure == InitCache /\ [][NextReconfigure]_vars

\* C30: the suggestions a pass takes from the cache for a chunk are those
\* the backend, as it is configured during the pass, produces for the
\* chunk's text and language.
CacheServesCurrentBackend ==
    cpc = "pass" =>
        \A k \in 1..para_idx :
            ~called[k] =>
                collected[k] = check_text(paragraphs[k].lang,
                                          paragraphs[k].text)

====
